---- MODULE Spec2Model ----
(***************************************************************************)
(* A model of autoStattic.py, the WordPress -> Markdown importer.          *)
(*                                                                         *)
(* Four parts of the program are modelled, each with its own               *)
(* specification over its own variables (the other variables are idle);    *)
(* Spec is their union:                                                    *)
(*   SpecFetch    fetch_wordpress_data, one loop iteration per step        *)
(*   SpecConvert  convert_post_to_md, statement group by statement group   *)
(*   SpecTax      fetch_custom_taxonomies                                  *)
(*   SpecBatch    save_posts_and_pages                                     *)
(*                                                                         *)
(* Text is a sequence of tokens; each token is written as the text it      *)
(* stands for, and the regular expressions of the source are evaluated on  *)
(* token boundaries (the alphabet is chosen so that every match of the     *)
(* source's expressions begins and ends on one).                           *)
(***************************************************************************)
EXTENDS Integers, Sequences, FiniteSets, TLC

VARIABLES
    \* fetch_wordpress_data
    server,             \* the remote endpoint: the answer it gives for page 1, 2, ...
    per_page,           \* parameter per_page
    data,               \* local data
    page,               \* local page
    requests,           \* the page numbers requested so far, in order (requests.get calls)
    result,             \* the value returned to the caller
    fpc                 \* "loop" | "break" | "returned" | "raised"

fetchVars == <<server, per_page, data, page, requests, result, fpc>>

VARIABLES
    \* convert_post_to_md
    post,               \* parameter post: the fetched record, an ordered mapping
    post_type,          \* parameter post_type
    use_markdown,       \* parameter use_markdown
    html_content,       \* local html_content
    blocks,             \* local blocks
    pieces,             \* what each loop iteration appended, before its "\n\n"
    converted_content,  \* local converted_content
    content,            \* local content
    frontmatter,        \* local frontmatter, an ordered mapping
    files,              \* the output directory: file path -> [frontmatter, content]
    cpc                 \* "start" | "body" | "front" | "folded" | "saved" | "raised"

convLocals == <<post, post_type, html_content, blocks, pieces,
                converted_content, content, frontmatter, cpc>>

convVars == <<convLocals, use_markdown, files>>

VARIABLES
    \* fetch_custom_taxonomies
    listing,            \* the answer of the taxonomy-listing endpoint
    term_servers,       \* the terms endpoint of each custom taxonomy
    queue,              \* the custom taxonomies the loop has yet to visit
    taxonomy_terms,     \* local taxonomy_terms, an ordered mapping
    tax_result,         \* the value returned to the caller
    tpc                 \* "discover" | "terms" | "except" | "returned" | "raised"

taxVars == <<listing, term_servers, queue, taxonomy_terms, tax_result, tpc>>

VARIABLES
    \* save_posts_and_pages
    site_posts,         \* the posts the site holds, in server order
    site_pages,         \* the pages the site holds, in server order
    posts,              \* local posts
    pages,              \* local pages
    cursor,             \* position of the running for loop in its list
    converted,          \* the <<post_type, item>> convert_post_to_md completed, in order
    bpc                 \* "fetch_posts" | "fetch_pages" | "posts" | "pages" | "done" | "raised"

batchVars == <<site_posts, site_pages, posts, pages, cursor, converted, bpc>>

vars == <<fetchVars, convVars, taxVars, batchVars>>

-----------------------------------------------------------------------------
(* Bounds *)

MaxPerPage == 2         \* page sizes 1..MaxPerPage stand for per_page (100 in the source)
MaxPages   == 3         \* the endpoint answers at most this many pages explicitly

SeqsUpTo(S, n) == UNION {[1..k -> S] : k \in 0..n}

RECURSIVE Flatten(_)
Flatten(ss) == IF ss = <<>> THEN <<>> ELSE Head(ss) \o Flatten(Tail(ss))

-----------------------------------------------------------------------------
(* The remote API.  A response is [kind, items]:                            *)
(*   kind = "ok"          2xx with a JSON array body (items)                *)
(*   kind = "http_error"  non-2xx status: raise_for_status() raises         *)
(*   kind = "bad_json"    2xx with a body that is not JSON: json() raises   *)
(*   kind = "conn_error"  requests.get itself raises (no response at all)   *)

ErrKinds == {"http_error", "bad_json", "conn_error"}

ErrResponse(k) == [kind |-> k, items |-> <<>>]
OkResponse(items) == [kind |-> "ok", items |-> items]

\* A page past the last one the endpoint holds is an empty array.
ResponseAt(srv, p) == IF p \in 1..Len(srv) THEN srv[p] ELSE OkResponse(<<>>)

\* The endpoints of SpecFetch: page p answers an error or n items <<p,1>>..<<p,n>>.
Shapes == {[kind |-> "ok", n |-> n] : n \in 0..MaxPerPage}
            \cup {[kind |-> k, n |-> 0] : k \in ErrKinds}

ServerOf(shapes) ==
    [p \in 1..Len(shapes) |->
        IF shapes[p].kind = "ok"
        THEN OkResponse([i \in 1..shapes[p].n |-> <<p, i>>])
        ELSE ErrResponse(shapes[p].kind)]

FetchServers == {ServerOf(s) : s \in SeqsUpTo(Shapes, MaxPages)}

-----------------------------------------------------------------------------
(* fetch_wordpress_data *)

FetchState(d, p, pc) == [data |-> d, page |-> p, pc |-> pc]

\* mutant: the "fewer items than per_page" test is missing
FetchStepNoShortStop(d, p, resp, pp) ==
    IF resp.kind = "conn_error" THEN FetchState(d, p, "raised")
    ELSE IF resp.kind \in {"http_error", "bad_json"} THEN FetchState(d, p, "break")
    ELSE IF resp.items = <<>> THEN FetchState(d, p, "break")
    ELSE FetchState(d \o resp.items, p + 1, "loop")

\* mutant: a failed page is skipped and the loop goes on with the next page
FetchStepSkipFailed(d, p, resp, pp) ==
    IF resp.kind = "conn_error" THEN FetchState(d, p, "raised")
    ELSE IF resp.kind \in {"http_error", "bad_json"} THEN FetchState(d, p + 1, "loop")
    ELSE IF resp.items = <<>> THEN FetchState(d, p, "break")
    ELSE IF Len(resp.items) < pp THEN FetchState(d \o resp.items, p, "break")
    ELSE FetchState(d \o resp.items, p + 1, "loop")

\* One iteration of the while loop, given the answer to requests.get(url).
FetchStep(d, p, resp, pp) ==
    IF resp.kind = "conn_error"
    THEN FetchState(d, p, "raised")            \* requests.get is outside the try
    ELSE IF resp.kind = "http_error"
    THEN FetchState(d, p, "break")             \* except HTTPError: break
    ELSE IF resp.kind = "bad_json"
    THEN FetchState(d, p, "break")             \* except JSONDecodeError: break
    ELSE IF resp.items = <<>>
    THEN FetchState(d, p, "break")             \* if not items: break
    ELSE IF Len(resp.items) < pp
    THEN FetchState(d \o resp.items, p, "break")
    ELSE FetchState(d \o resp.items, p + 1, "loop")

\* The whole call: the state in which the loop is left.
RECURSIVE FetchFrom(_, _, _, _)
FetchFrom(srv, pp, d, p) ==
    LET st == FetchStep(d, p, ResponseAt(srv, p), pp)
    IN  IF st.pc = "loop" THEN FetchFrom(srv, pp, st.data, st.page) ELSE st

fetch_wordpress_data(srv, pp) == FetchFrom(srv, pp, <<>>, 1)

IdleFetch ==
    /\ server = <<>> /\ per_page = 0 /\ data = <<>> /\ page = 0
    /\ requests = <<>> /\ result = <<>> /\ fpc = "idle"

IdleConvertLocals ==
    /\ post = <<>> /\ post_type = "" /\ html_content = <<>>
    /\ blocks = <<>> /\ pieces = <<>> /\ converted_content = <<>> /\ content = <<>>
    /\ frontmatter = <<>> /\ cpc = "idle"

IdleConvert == IdleConvertLocals /\ use_markdown = FALSE /\ files = <<>>

IdleTax ==
    /\ listing = <<>> /\ term_servers = <<>> /\ queue = <<>>
    /\ taxonomy_terms = <<>> /\ tax_result = <<>> /\ tpc = "idle"

IdleBatch ==
    /\ site_posts = <<>> /\ site_pages = <<>> /\ posts = <<>> /\ pages = <<>>
    /\ cursor = 0 /\ converted = <<>> /\ bpc = "idle"

InitFetch ==
    /\ IdleConvert /\ IdleTax /\ IdleBatch
    /\ server \in FetchServers
    /\ per_page \in 1..MaxPerPage
    /\ data = <<>>
    /\ page = 1
    /\ requests = <<>>
    /\ result = <<>>
    /\ fpc = "loop"

FetchIteration ==
    /\ fpc = "loop"
    /\ LET st == FetchStep(data, page, ResponseAt(server, page), per_page)
       IN  /\ requests' = Append(requests, page)
           /\ data' = st.data
           /\ page' = st.page
           /\ fpc' = st.pc
    /\ UNCHANGED <<server, per_page, result, convVars, taxVars, batchVars>>

FetchReturn ==
    /\ fpc = "break"
    /\ result' = data
    /\ fpc' = "returned"
    /\ UNCHANGED <<server, per_page, data, page, requests, convVars, taxVars, batchVars>>

NextFetch == FetchIteration \/ FetchReturn

SpecFetch == InitFetch /\ [][NextFetch]_vars

-----------------------------------------------------------------------------
(* Claims about fetch_wordpress_data *)

PageItems(p) == ResponseAt(server, p).items
PageKind(p) == ResponseAt(server, p).kind
PagesUpTo(n) == Flatten([p \in 1..n |-> PageItems(p)])
IsShort(p) == Len(PageItems(p)) < per_page
CountingUpTo(n) == [i \in 1..n |-> i]

\* C1: pages are requested as 1, 2, 3, ... in increasing order, each at most
\* once; when every requested page answered successfully, the last page
\* requested is the first one that is empty or shorter than per_page, and the
\* returned list is the in-order concatenation of the items of the pages
\* requested.
C1_PaginationStopsAtFirstShortPage ==
    /\ requests = CountingUpTo(Len(requests))
    /\ (fpc = "returned" /\ \A i \in 1..Len(requests) : PageKind(requests[i]) = "ok") =>
          LET n == Len(requests)
          IN  /\ n >= 1
              /\ IsShort(n)
              /\ \A j \in 1..(n - 1) : ~IsShort(j)
              /\ result = PagesUpTo(n)

\* Witness of C1: two full pages and a shorter, non-empty third one.
C1_Witness ==
    /\ fpc = "returned"
    /\ per_page = MaxPerPage
    /\ Len(server) >= 3
    /\ Len(PageItems(1)) = per_page
    /\ Len(PageItems(2)) = per_page
    /\ PageKind(3) = "ok" /\ Len(PageItems(3)) = per_page - 1
    /\ requests = <<1, 2, 3>>
    /\ Len(result) = 3 * per_page - 1

\* C2: when page k answers with a non-2xx status or a body that is not JSON
\* after full pages 1..k-1, no request follows the one for page k, nothing is
\* raised, and the pages 1..k-1 are returned in order.
C2_FailedPageEndsPagination ==
    \A k \in 1..Len(server) :
        ( /\ PageKind(k) \in {"http_error", "bad_json"}
          /\ \A j \in 1..(k - 1) : PageKind(j) = "ok" /\ Len(PageItems(j)) = per_page )
        => /\ Len(requests) <= k
           /\ fpc # "raised"
           /\ fpc = "returned" => (requests = CountingUpTo(k) /\ result = PagesUpTo(k - 1))

\* Witness of C2: a full first page, then a malformed second page.
C2_Witness ==
    /\ fpc = "returned"
    /\ Len(server) >= 2
    /\ PageKind(1) = "ok" /\ Len(PageItems(1)) = per_page
    /\ PageKind(2) = "bad_json"
    /\ requests = <<1, 2>>
    /\ result = PageItems(1)

-----------------------------------------------------------------------------
(* Text.  A string is a sequence of tokens; a token is written as the text  *)
(* it stands for.                                                           *)

DivMarked == "<div class=\"wp-block-group\">"
DivClose  == "</div>"
PMarked   == "<p class=\"wp-block-text\">"
Bold      == "<b>"
Word      == "a"
Space     == " "
Img       == "![alt](https://example.com/wp-content/uploads/2024/img.png)"

\* Text that only the conversion produces.
NL2          == "\n\n"
Stars        == "**"
ImgRewritten == "!\\[alt\\](2024/img.png)"
ImgLocal     == "![alt](2024/img.png)"

Alphabet == {DivMarked, DivClose, PMarked, Bold, Word, Space, Img}

MaxLen == 3             \* longest content body, in tokens

Bodies == SeqsUpTo(Alphabet, MaxLen)

Whitespace == {Space, NL2}

\* re.search(r'wp-block', token)
HasMarkerToken(t) == t \in {DivMarked, PMarked}

Reverse(s) == [i \in 1..Len(s) |-> s[Len(s) + 1 - i]]

RECURSIVE lstrip(_)
lstrip(s) == IF s # <<>> /\ Head(s) \in Whitespace THEN lstrip(Tail(s)) ELSE s

\* str.strip()
strip(s) == Reverse(lstrip(Reverse(lstrip(s))))

\* html_converter.handle on one token: a tag is dropped or replaced by its
\* Markdown, a block boundary becomes a paragraph break, text is kept.
Html2Text(t) ==
    CASE t = DivMarked -> <<NL2>>
      [] t = DivClose  -> <<NL2>>
      [] t = PMarked   -> <<NL2>>
      [] t = Bold      -> <<Stars>>
      [] OTHER         -> <<t>>

\* html_converter.handle(text)
handle(s) == Flatten([i \in 1..Len(s) |-> Html2Text(s[i])])

\* t is a contiguous part of s
Contains(s, t) ==
    \E i \in 0..(Len(s) - Len(t)) : SubSeq(s, i + 1, i + Len(t)) = t

-----------------------------------------------------------------------------
(* Values of a fetched record and of the frontmatter, tagged by their type. *)

Num(n)      == <<"int", n>>
Str(x)      == <<"str", x>>
Text(toks)  == <<"text", toks>>         \* a string held as tokens
List(xs)    == <<"list", xs>>           \* a list of strings
Ids(xs)     == <<"ids", xs>>            \* a list of integers
Dict(name)  == <<"dict", name>>         \* an opaque, non-empty mapping
Rendered(v) == <<"rendered", v>>        \* the mapping {'rendered': v}
Null        == <<"null">>               \* JSON null
Absent      == <<"absent">>             \* the key is not there

\* Ordered mappings (dict): a sequence of [k, v], keys distinct.
Keys(d) == [i \in 1..Len(d) |-> d[i].k]
HasKey(d, k) == \E i \in 1..Len(d) : d[i].k = k
Get(d, k, default) ==
    IF HasKey(d, k) THEN d[CHOOSE i \in 1..Len(d) : d[i].k = k].v ELSE default

\* mutant: an assignment to an existing key moves the key to the end
PutMovesKey(d, k, v) ==
    SelectSeq(d, LAMBDA e : e.k # k) \o <<[k |-> k, v |-> v]>>

\* d[k] = v: an existing key keeps its place, a new key goes last.
Put(d, k, v) ==
    IF HasKey(d, k)
    THEN [i \in 1..Len(d) |-> IF d[i].k = k THEN [k |-> k, v |-> v] ELSE d[i]]
    ELSE Append(d, [k |-> k, v |-> v])

\* d.update(e)
RECURSIVE Update(_, _)
Update(d, e) == IF e = <<>> THEN d ELSE Update(Put(d, Head(e).k, Head(e).v), Tail(e))

\* post.get(k, {}).get('rendered', default)
GetRendered(d, k, default) ==
    LET v == Get(d, k, Absent) IN IF v[1] = "rendered" THEN v[2] ELSE default

-----------------------------------------------------------------------------
(* The lookup tables handed to convert_post_to_md. *)

Term(id, name) == [id |-> id, name |-> name]

authors    == (7 :> "Ann")
categories == (5 :> Term(5, "News"))
tags       == (3 :> Term(3, "tla"))
custom_taxonomies == <<[k |-> "genre", v |-> (11 :> Term(11, "Jazz"))],
                       [k |-> "topic", v |-> (21 :> Term(21, "Math"))]>>

\* f"Unknown (ID: {term_id})"
UnknownName(id) ==
    CASE id = 99 -> "Unknown (ID: 99)"
      [] id = 12 -> "Unknown (ID: 12)"
      [] OTHER   -> "Unknown (ID: ?)"

map_term_ids_to_names(ids, terms) ==
    [i \in 1..Len(ids) |->
        IF ids[i] \in DOMAIN terms THEN terms[ids[i]].name ELSE UnknownName(ids[i])]

-----------------------------------------------------------------------------
(* The records convert_post_to_md is given. *)

DefaultBody == <<Bold, Word>>

FieldValues ==
    [title      |-> {Rendered(Str("Hi"))},
     date       |-> {Str("2024-01-01")},
     author     |-> {Num(7)},
     categories |-> {Ids(<<5, 99>>)},
     tags       |-> {Ids(<<3>>)},
     content    |-> {Rendered(Text(DefaultBody)), Null},
     excerpt    |-> {Rendered(Text(<<Bold, Word, Space>>))},
     acf        |-> {Dict("acf"), List(<<>>)},
     genre      |-> {Ids(<<11, 12>>)},
     slug       |-> {Str("hi")},
     status     |-> {Str("publish")}]

Fields == UNION {{[k |-> key, v |-> val] : val \in FieldValues[key]} : key \in DOMAIN FieldValues}

MaxFields == 3          \* most fields of a record whose fields vary

DistinctKeys(d) == \A i, j \in 1..Len(d) : d[i].k = d[j].k => i = j

\* Records with any fields in any order, and records whose content body varies.
Posts ==
    {d \in SeqsUpTo(Fields, MaxFields) : DistinctKeys(d)}
        \cup {<<[k |-> "content", v |-> Rendered(Text(h))]>> : h \in Bodies}

-----------------------------------------------------------------------------
(* convert_post_to_md *)

IsMatchStart(s, i) ==
    s[i] = DivMarked /\ \E j \in (i + 1)..Len(s) : s[j] = DivClose

Min(S) == CHOOSE x \in S : \A y \in S : x <= y

\* mutant: empty segments are dropped
RECURSIVE splitDropEmpty(_)
splitDropEmpty(s) ==
    LET starts == {i \in 1..Len(s) : IsMatchStart(s, i)}
    IN  IF starts = {}
        THEN IF s = <<>> THEN <<>> ELSE <<s>>
        ELSE LET i == Min(starts)
                 j == Min({j \in (i + 1)..Len(s) : s[j] = DivClose})
             IN  (IF i = 1 THEN <<>> ELSE <<SubSeq(s, 1, i - 1)>>)
                    \o <<SubSeq(s, i, j)>> \o splitDropEmpty(SubSeq(s, j + 1, Len(s)))

\* re.split(r'(<div[^>]*wp-block[^>]*>.*?</div>)', s, flags=re.DOTALL): the
\* leftmost marker-bearing <div ...> that has a </div> after it matches up to
\* the first such </div>; the result alternates the text between matches (odd
\* positions) and the matches (even positions).
RECURSIVE split(_)
split(s) ==
    LET starts == {i \in 1..Len(s) : IsMatchStart(s, i)}
    IN  IF starts = {}
        THEN <<s>>
        ELSE LET i == Min(starts)
                 j == Min({j \in (i + 1)..Len(s) : s[j] = DivClose})
             IN  <<SubSeq(s, 1, i - 1), SubSeq(s, i, j)>>
                    \o split(SubSeq(s, j + 1, Len(s)))

\* re.search(r'wp-block', block)
HasMarker(block) == \E i \in 1..Len(block) : HasMarkerToken(block[i])

\* mutant: only a marker-bearing div counts as a raw block
RenderBlockDivOnly(block, md) ==
    IF \E i \in 1..Len(block) : block[i] = DivMarked
    THEN strip(block)
    ELSE IF md THEN strip(handle(block)) ELSE strip(block)

\* One iteration of the loop over blocks: what is appended before "\n\n".
RenderBlock(block, md) ==
    IF HasMarker(block)
    THEN strip(block)
    ELSE IF md THEN strip(handle(block)) ELSE strip(block)

\* re.sub(r'!\[(.*?)\]\((https://example.com/wp-content/uploads/(.*?)\))',
\*        r'!\[\1\](\3)', content): the template keeps "\[" and "\]" as written.
process_media_links(c) ==
    [i \in 1..Len(c) |-> IF c[i] = Img THEN ImgRewritten ELSE c[i]]

\* slug.replace('/', '-')
SlugText(x) == IF x = "a/b" THEN "a-b" ELSE x

\* os.path.join(CONTENT_DIR, f"{post_type}s", f"{slug}.md")
FilePath(p, pt) ==
    LET slug == Get(p, "slug", Absent)
    IN  IF slug = Absent
        THEN <<pt, "by-id", Get(p, "id", Absent)>>
        ELSE <<pt, "by-slug", Str(SlugText(slug[2]))>>

\* post.get('content', {}) is not a mapping: .get raises AttributeError
ConvertRaises(p) == Get(p, "content", Absent) = Null

\* Lines 92-116.
BodyOf(p, md) ==
    LET html == GetRendered(p, "content", Text(<<>>))[2]
        bl   == split(html)
        pc   == [i \in 1..Len(bl) |-> RenderBlock(bl[i], md)]
        conv == Flatten([i \in 1..Len(bl) |-> pc[i] \o <<NL2>>])
    IN  [html_content |-> html, blocks |-> bl, pieces |-> pc,
         converted_content |-> conv, content |-> process_media_links(conv)]

\* Lines 118-137.
BaseFrontmatter(p, pt) ==
    LET author_id == Get(p, "author", Num(0))[2]
        author_name == IF author_id \in DOMAIN authors THEN authors[author_id] ELSE "Unknown"
    IN  <<[k |-> "title",      v |-> GetRendered(p, "title", Str("Untitled"))],
          [k |-> "date",       v |-> Get(p, "date", Str(""))],
          [k |-> "author",     v |-> Str(author_name)],
          [k |-> "excerpt",    v |-> Text(strip(handle(GetRendered(p, "excerpt", Text(<<>>))[2])))],
          [k |-> "custom_url", v |-> Get(p, "slug", Str(""))],
          [k |-> "type",       v |-> Str(pt)],
          [k |-> "categories", v |-> List(map_term_ids_to_names(Get(p, "categories", List(<<>>))[2], categories))],
          [k |-> "tags",       v |-> List(map_term_ids_to_names(Get(p, "tags", List(<<>>))[2], tags))]>>

\* Lines 140-142: a truthy acf value is attached.
Truthy(v) == v \notin {Absent, Null, List(<<>>), Ids(<<>>), Str("")}

WithAcf(fm, p) ==
    LET acf_data == Get(p, "acf", Absent)
    IN  IF Truthy(acf_data) THEN Put(fm, "acf", acf_data) ELSE fm

\* Lines 145-147.
RECURSIVE WithCustomTaxonomies(_, _, _)
WithCustomTaxonomies(fm, p, taxes) ==
    IF taxes = <<>> THEN fm
    ELSE LET t == Head(taxes)
             fm2 == IF HasKey(p, t.k)
                    THEN Put(fm, t.k, List(map_term_ids_to_names(Get(p, t.k, List(<<>>))[2], t.v)))
                    ELSE fm
         IN  WithCustomTaxonomies(fm2, p, Tail(taxes))

\* Line 150.
FoldExcluded == {"content", "excerpt", "guid", "_links", "_embedded", "acf"}

filtered_metadata(p) == SelectSeq(p, LAMBDA e : e.k \notin FoldExcluded)

\* save_as_markdown: the title is unwrapped, the record is dumped in its own
\* key order (sort_keys=False) and the content follows.
save_as_markdown(fm, c) ==
    LET t0 == Get(fm, "title", Str("Untitled"))
        title == IF t0[1] = "rendered" THEN t0[2] ELSE t0
    IN  [frontmatter |-> Put(fm, "title", title), content |-> c]

InitConvert ==
    /\ IdleFetch /\ IdleTax /\ IdleBatch
    /\ post \in Posts
    /\ post_type \in {"post", "page"}
    /\ use_markdown \in BOOLEAN
    /\ html_content = <<>>
    /\ blocks = <<>>
    /\ pieces = <<>>
    /\ converted_content = <<>>
    /\ content = <<>>
    /\ frontmatter = <<>>
    /\ files = <<>>
    /\ cpc = "start"

\* Line 96 raises: nothing is converted or written.
ConvertRaise ==
    /\ cpc = "start"
    /\ ConvertRaises(post)
    /\ cpc' = "raised"
    /\ UNCHANGED <<post, post_type, use_markdown, html_content, blocks, pieces,
                   converted_content, content, frontmatter, files, fetchVars, taxVars, batchVars>>

ConvertBody ==
    /\ cpc = "start"
    /\ ~ConvertRaises(post)
    /\ LET b == BodyOf(post, use_markdown)
       IN  /\ html_content' = b.html_content
           /\ blocks' = b.blocks
           /\ pieces' = b.pieces
           /\ converted_content' = b.converted_content
           /\ content' = b.content
    /\ cpc' = "body"
    /\ UNCHANGED <<post, post_type, use_markdown, frontmatter, files, fetchVars, taxVars, batchVars>>

ConvertFrontmatter ==
    /\ cpc = "body"
    /\ frontmatter' = WithCustomTaxonomies(WithAcf(BaseFrontmatter(post, post_type), post),
                                           post, custom_taxonomies)
    /\ cpc' = "front"
    /\ UNCHANGED <<post, post_type, use_markdown, html_content, blocks, pieces,
                   converted_content, content, files, fetchVars, taxVars, batchVars>>

ConvertFold ==
    /\ cpc = "front"
    /\ frontmatter' = Update(frontmatter, filtered_metadata(post))
    /\ cpc' = "folded"
    /\ UNCHANGED <<post, post_type, use_markdown, html_content, blocks, pieces,
                   converted_content, content, files, fetchVars, taxVars, batchVars>>

ConvertSave ==
    /\ cpc = "folded"
    /\ files' = (FilePath(post, post_type) :> save_as_markdown(frontmatter, content))
    /\ cpc' = "saved"
    /\ UNCHANGED <<post, post_type, use_markdown, html_content, blocks, pieces,
                   converted_content, content, frontmatter, fetchVars, taxVars, batchVars>>

NextConvert ==
    ConvertRaise \/ ConvertBody \/ ConvertFrontmatter \/ ConvertFold \/ ConvertSave

SpecConvert == InitConvert /\ [][NextConvert]_vars

\* The file convert_post_to_md wrote.
Written == files[FilePath(post, post_type)]

-----------------------------------------------------------------------------
(* Claims about convert_post_to_md *)

BodyDone == cpc \in {"body", "front", "folded", "saved"}

ResolvedAuthor(p) ==
    LET id == Get(p, "author", Num(0))[2]
    IN  Str(IF id \in DOMAIN authors THEN authors[id] ELSE "Unknown")

ResolvedTerms(p, key, terms) ==
    List(map_term_ids_to_names(Get(p, key, List(<<>>))[2], terms))

\* C3: the frontmatter that is written has 'author' equal to the author's
\* name from the author table (or "Unknown") and 'categories' / 'tags' equal
\* to the lists of resolved term names, whatever raw 'author', 'categories'
\* and 'tags' fields the item carries.
C3_WrittenFrontmatterHoldsResolvedNames ==
    cpc = "saved" =>
        LET fm == Written.frontmatter
        IN  /\ Get(fm, "author", Absent) = ResolvedAuthor(post)
            /\ Get(fm, "categories", Absent) = ResolvedTerms(post, "categories", categories)
            /\ Get(fm, "tags", Absent) = ResolvedTerms(post, "tags", tags)

\* The segments the split expression matched: the even positions of blocks.
StructuredAt(i) == i \in 1..Len(blocks) /\ i % 2 = 0
\* The spans outside the matches: the odd positions of blocks.
SpanAt(i) == i \in 1..Len(blocks) /\ i % 2 = 1

\* C4: every segment matched by the split expression appears unchanged, as
\* one contiguous piece, in the body that is written to the output file.
C4_StructuredSegmentsWrittenVerbatim ==
    cpc = "saved" =>
        \A i \in 1..Len(blocks) : StructuredAt(i) => Contains(Written.content, blocks[i])

\* C6: process_media_links turns every image reference under the upload
\* prefix into the same reference with the prefix stripped, and changes
\* nothing else: ![alt](https://example.com/wp-content/uploads/2024/img.png)
\* becomes ![alt](2024/img.png).
C6_MediaLinkPrefixStripped ==
    BodyDone =>
        content = [i \in 1..Len(converted_content) |->
                      IF converted_content[i] = Img THEN ImgLocal ELSE converted_content[i]]

FixedKeys == <<"title", "date", "author", "excerpt", "custom_url", "type", "categories", "tags">>

SeqRange(s) == {s[i] : i \in 1..Len(s)}

TaxKeysOf(p) == SelectSeq(Keys(custom_taxonomies), LAMBDA k : HasKey(p, k))

AcfKeyOf(p) == IF Truthy(Get(p, "acf", Absent)) THEN <<"acf">> ELSE <<>>

RestKeysOf(p, earlier) ==
    SelectSeq(Keys(p), LAMBDA k : k \notin FoldExcluded /\ k \notin SeqRange(earlier))

IsPrefix(s, t) == Len(s) <= Len(t) /\ SubSeq(t, 1, Len(s)) = s

\* C7 as stated: the keys of the emitted frontmatter are the eight fixed
\* keys in their order, then the custom-taxonomy keys, then the remaining
\* metadata keys.
C7_KeyOrderFixedThenTaxonomiesThenRest ==
    cpc = "saved" =>
        LET ks == Keys(Written.frontmatter)
            head == FixedKeys \o TaxKeysOf(post)
        IN  /\ IsPrefix(head, ks)
            /\ \A i \in (Len(head) + 1)..Len(ks) : ks[i] \notin SeqRange(head)

\* C7 as amended: the keys of the emitted frontmatter are the eight fixed
\* keys in their order, then acf when the item carries a non-empty acf
\* bundle, then the custom-taxonomy keys the item has, in table order, then
\* the item's remaining fields in the item's own order; the first two keys are
\* title then date, and folding in the item's fields moves no key.
C7_KeyOrderWithAcfBeforeTaxonomies ==
    LET head == FixedKeys \o AcfKeyOf(post) \o TaxKeysOf(post)
    IN  /\ cpc = "front" => Keys(frontmatter) = head
        /\ cpc = "folded" => (IsPrefix(head, Keys(frontmatter))
                                /\ Keys(frontmatter) = head \o RestKeysOf(post, head))
        /\ cpc = "saved" =>
              LET ks == Keys(Written.frontmatter)
              IN  /\ ks = head \o RestKeysOf(post, head)
                  /\ ks[1] = "title" /\ ks[2] = "date"

\* Witness of C7: an item that carries a further field, a custom taxonomy and
\* a non-empty acf bundle, in that order, has been written.
C7_Witness ==
    /\ cpc = "saved"
    /\ Keys(post) = <<"status", "genre", "acf">>
    /\ Truthy(Get(post, "acf", Absent))
    /\ Keys(Written.frontmatter) = FixedKeys \o <<"acf", "genre", "status">>

\* C8 as stated: with use_markdown on, every span outside the matched
\* segments is passed through the HTML-to-Markdown conversion.
C8_EverySpanOutsideMatchesConverted ==
    (BodyDone /\ use_markdown) =>
        \A i \in 1..Len(blocks) : SpanAt(i) => pieces[i] = strip(handle(blocks[i]))

\* C8 as amended: with use_markdown on, a span outside the matched segments
\* is passed through the HTML-to-Markdown conversion exactly when its text
\* does not contain the marker token; a span that contains it (a non-div
\* element carrying a wp-block class, an unclosed marker-bearing div) is
\* emitted raw, trimmed.
C8_SpanConvertedUnlessItHoldsTheMarker ==
    (BodyDone /\ use_markdown) =>
        \A i \in 1..Len(blocks) : SpanAt(i) =>
            pieces[i] = IF \E j \in 1..Len(blocks[i]) : blocks[i][j] \in {DivMarked, PMarked}
                        THEN strip(blocks[i])
                        ELSE strip(handle(blocks[i]))

\* Witness of C8: a span holding a non-div element with a wp-block class was
\* emitted raw although use_markdown is on and its conversion differs.
C8_Witness ==
    /\ cpc = "saved"
    /\ use_markdown
    /\ html_content = <<PMarked, Bold, Word>>
    /\ blocks = <<html_content>>
    /\ pieces[1] = <<PMarked, Bold, Word>>
    /\ strip(handle(blocks[1])) = <<Stars, Word>>

\* C9 as stated: an empty (or missing) content body gives an empty sequence
\* of segments, and the loop contributes nothing to the body.
C9_EmptyBodyGivesNoSegment ==
    (BodyDone /\ html_content = <<>>) => (blocks = <<>> /\ converted_content = <<>>)

\* C9 as amended: an empty (or missing) content body gives exactly one
\* segment, the empty one; the loop runs once and contributes an empty
\* rendering followed by one separator, so the written body is "\n\n".
C9_EmptyBodyGivesOneEmptySegment ==
    (BodyDone /\ html_content = <<>>) =>
        /\ blocks = << <<>> >>
        /\ pieces = << <<>> >>
        /\ converted_content = <<NL2>>
        /\ cpc = "saved" => Written.content = <<NL2>>

\* Witness of C9: an item whose content body is the empty string was written.
C9_Witness ==
    /\ cpc = "saved"
    /\ Get(post, "content", Absent) = Rendered(Text(<<>>))
    /\ html_content = <<>>
    /\ Written.content = <<NL2>>

-----------------------------------------------------------------------------
(* fetch_terms_by_taxonomy and fetch_custom_taxonomies *)

\* per_page is left at its default (100 in the source) by every caller.
DefaultPerPage == MaxPerPage

MaxTermPages == 2       \* a terms endpoint answers at most this many pages explicitly

Missing == "<no name>"  \* stands for a term record without a 'name' key

\* The terms endpoints: page p answers an error, a full page of terms, one
\* term only, or one term that lacks its name.
TermShapes == {"full", "short", "short_nameless"} \cup ErrKinds

TermId(p, i) == 10 * p + i

TermPage(shape, p) ==
    CASE shape = "full" ->
            OkResponse([i \in 1..DefaultPerPage |-> Term(TermId(p, i), "term")])
      [] shape = "short" -> OkResponse(<<Term(TermId(p, 1), "term")>>)
      [] shape = "short_nameless" -> OkResponse(<<Term(TermId(p, 1), Missing)>>)
      [] OTHER -> ErrResponse(shape)

TermServers ==
    {[p \in 1..Len(s) |-> TermPage(s[p], p)] : s \in SeqsUpTo(TermShapes, MaxTermPages)}

CustomTaxonomyNames == {"genre", "topic"}

Listings ==
    {<<"category", "post_tag", "genre", "topic">>, <<"topic", "category", "genre">>,
     <<"genre">>, <<"post_tag", "topic">>, <<"category", "post_tag">>}

ListingResponses == {OkResponse(l) : l \in Listings} \cup {ErrResponse(k) : k \in ErrKinds}

\* {term['id']: {'id': term['id'], 'name': term['name']} for term in terms}
TermTable(terms) ==
    [id \in {terms[i].id : i \in 1..Len(terms)} |->
        LET t == terms[CHOOSE i \in 1..Len(terms) :
                          terms[i].id = id /\ \A j \in (i + 1)..Len(terms) : terms[j].id # id]
        IN  Term(t.id, t.name)]

\* The outcome of the call: what it raises ("none" when it returns) and the
\* table it returns.
fetch_terms_by_taxonomy(srv) ==
    LET st == fetch_wordpress_data(srv, DefaultPerPage)
    IN  IF st.pc = "raised"
        THEN [raises |-> "ConnectionError", terms |-> <<>>]
        ELSE IF \E i \in 1..Len(st.data) : st.data[i].name = Missing
        THEN [raises |-> "KeyError", terms |-> <<>>]
        ELSE [raises |-> "none", terms |-> TermTable(st.data)]

InitTax ==
    /\ IdleFetch /\ IdleConvert /\ IdleBatch
    /\ listing \in ListingResponses
    /\ term_servers \in [CustomTaxonomyNames -> TermServers]
    /\ queue = <<>>
    /\ taxonomy_terms = <<>>
    /\ tax_result = <<>>
    /\ tpc = "discover"

\* Lines 171-182: the listing request and the filter of the built-in taxonomies.
TaxDiscover ==
    /\ tpc = "discover"
    /\ IF listing.kind = "conn_error"
       THEN tpc' = "raised" /\ queue' = queue      \* requests.get is outside the try
       ELSE IF listing.kind \in {"http_error", "bad_json"}
       THEN tpc' = "except" /\ queue' = queue
       ELSE /\ queue' = SelectSeq(listing.items, LAMBDA k : k \notin {"category", "post_tag"})
            /\ tpc' = "terms"
    /\ UNCHANGED <<listing, term_servers, taxonomy_terms, tax_result,
                   fetchVars, convVars, batchVars>>

\* Lines 183-189: one iteration of the loop over the custom taxonomies.
TaxFetchTerms ==
    /\ tpc = "terms"
    /\ queue # <<>>
    /\ LET taxonomy == Head(queue)
           r == fetch_terms_by_taxonomy(term_servers[taxonomy])
       IN  IF r.raises = "none"
           THEN /\ taxonomy_terms' = Put(taxonomy_terms, taxonomy, r.terms)
                /\ queue' = Tail(queue)
                /\ tpc' = "terms"
           ELSE IF r.raises = "HTTPError"
           THEN /\ queue' = Tail(queue)            \* except HTTPError: continue
                /\ UNCHANGED <<taxonomy_terms, tpc>>
           ELSE /\ tpc' = "except"                 \* the outer except Exception
                /\ UNCHANGED <<taxonomy_terms, queue>>
    /\ UNCHANGED <<listing, term_servers, tax_result, fetchVars, convVars, batchVars>>

\* Line 191: return taxonomy_terms.
TaxReturn ==
    /\ tpc = "terms"
    /\ queue = <<>>
    /\ tax_result' = taxonomy_terms
    /\ tpc' = "returned"
    /\ UNCHANGED <<listing, term_servers, queue, taxonomy_terms,
                   fetchVars, convVars, batchVars>>

\* Lines 193-200: an exception was logged; return {}.
TaxReturnEmpty ==
    /\ tpc = "except"
    /\ tax_result' = <<>>
    /\ tpc' = "returned"
    /\ UNCHANGED <<listing, term_servers, queue, taxonomy_terms,
                   fetchVars, convVars, batchVars>>

NextTax == TaxDiscover \/ TaxFetchTerms \/ TaxReturn \/ TaxReturnEmpty

SpecTax == InitTax /\ [][NextTax]_vars

-----------------------------------------------------------------------------
(* Claims about fetch_custom_taxonomies *)

Discovered == {k \in SeqRange(listing.items) : k \notin {"category", "post_tag"}}

\* The pages the fetch of a taxonomy's terms asks for end with a failed one,
\* or a term that was fetched lacks its name.
TermFetchFails(t) ==
    LET st == fetch_wordpress_data(term_servers[t], DefaultPerPage)
    IN  \/ ResponseAt(term_servers[t], st.page).kind \in ErrKinds
        \/ \E i \in 1..Len(st.data) : st.data[i].name = Missing

FetchedTerms(t) == TermTable(fetch_wordpress_data(term_servers[t], DefaultPerPage).data)

\* C5: when the fetch of the terms of one custom taxonomy fails, that
\* taxonomy is absent from the returned table and every other discovered
\* custom taxonomy is present with its fetched terms.
C5_FailedTaxonomyAloneIsAbsent ==
    (tpc = "returned" /\ listing.kind = "ok") =>
        \A t \in Discovered :
            (TermFetchFails(t) /\ \A u \in Discovered \ {t} : ~TermFetchFails(u)) =>
                /\ ~HasKey(tax_result, t)
                /\ \A u \in Discovered \ {t} :
                      HasKey(tax_result, u) /\ Get(tax_result, u, Absent) = FetchedTerms(u)

-----------------------------------------------------------------------------
(* save_posts_and_pages *)

MaxItems == 3           \* most posts, and most pages, the site holds

ItemPlain   == <<[k |-> "slug", v |-> Str("hi")],
                 [k |-> "content", v |-> Rendered(Text(<<Bold, Word>>))]>>
ItemSameSlug == <<[k |-> "content", v |-> Rendered(Text(<<Img>>))],
                  [k |-> "slug", v |-> Str("hi")]>>
ItemNullContent == <<[k |-> "slug", v |-> Str("a/b")],
                     [k |-> "content", v |-> Null]>>

Items == {ItemPlain, ItemSameSlug, ItemNullContent}

\* The endpoint of a site that holds the given items: pages of pp items each.
Paginate(items, pp) ==
    [p \in 1..((Len(items) + pp - 1) \div pp) |->
        OkResponse(SubSeq(items, (p - 1) * pp + 1,
                          IF p * pp < Len(items) THEN p * pp ELSE Len(items)))]

\* convert_post_to_md as a whole, for an item it does not raise on: the path
\* and the file it writes.
ConvertedFile(p, pt, md) ==
    [path |-> FilePath(p, pt),
     file |-> save_as_markdown(
                  Update(WithCustomTaxonomies(WithAcf(BaseFrontmatter(p, pt), p),
                                              p, custom_taxonomies),
                         filtered_metadata(p)),
                  BodyOf(p, md).content)]

\* open(file_path, "w"): the file is created or overwritten.
WriteFile(fs, path, file) ==
    [q \in DOMAIN fs \cup {path} |-> IF q = path THEN file ELSE fs[q]]

InitBatch ==
    /\ IdleFetch /\ IdleConvertLocals /\ IdleTax
    /\ use_markdown \in BOOLEAN
    /\ files = <<>>
    /\ site_posts \in SeqsUpTo(Items, MaxItems)
    /\ site_pages \in SeqsUpTo(Items, MaxItems)
    /\ posts = <<>>
    /\ pages = <<>>
    /\ cursor = 0
    /\ converted = <<>>
    /\ bpc = "fetch_posts"

\* Line 205.
BatchFetchPosts ==
    /\ bpc = "fetch_posts"
    /\ posts' = fetch_wordpress_data(Paginate(site_posts, DefaultPerPage), DefaultPerPage).data
    /\ bpc' = "fetch_pages"
    /\ UNCHANGED <<site_posts, site_pages, pages, cursor, converted,
                   use_markdown, files, fetchVars, convLocals, taxVars>>

\* Line 210.
BatchFetchPages ==
    /\ bpc = "fetch_pages"
    /\ pages' = fetch_wordpress_data(Paginate(site_pages, DefaultPerPage), DefaultPerPage).data
    /\ cursor' = 1
    /\ bpc' = "posts"
    /\ UNCHANGED <<site_posts, site_pages, posts, converted,
                   use_markdown, files, fetchVars, convLocals, taxVars>>

\* The list the running loop goes over, and the post_type it passes.
CurrentList == IF bpc = "posts" THEN posts ELSE pages
CurrentType == IF bpc = "posts" THEN "post" ELSE "page"

\* Lines 217-222: one iteration of either loop, convert_post_to_md returning.
BatchConvert ==
    /\ bpc \in {"posts", "pages"}
    /\ cursor <= Len(CurrentList)
    /\ ~ConvertRaises(CurrentList[cursor])
    /\ LET w == ConvertedFile(CurrentList[cursor], CurrentType, use_markdown)
       IN  files' = WriteFile(files, w.path, w.file)
    /\ converted' = Append(converted, <<CurrentType, CurrentList[cursor]>>)
    /\ cursor' = cursor + 1
    /\ UNCHANGED <<site_posts, site_pages, posts, pages, bpc,
                   use_markdown, fetchVars, convLocals, taxVars>>

\* mutant: a failing item is skipped and the loop goes on
BatchSkipFailed ==
    /\ bpc \in {"posts", "pages"}
    /\ cursor <= Len(CurrentList)
    /\ ConvertRaises(CurrentList[cursor])
    /\ cursor' = cursor + 1
    /\ UNCHANGED <<site_posts, site_pages, posts, pages, converted, bpc,
                   use_markdown, files, fetchVars, convLocals, taxVars>>

\* Lines 217-222: convert_post_to_md raises; nothing catches it, the call ends.
BatchRaise ==
    /\ bpc \in {"posts", "pages"}
    /\ cursor <= Len(CurrentList)
    /\ ConvertRaises(CurrentList[cursor])
    /\ bpc' = "raised"
    /\ UNCHANGED <<site_posts, site_pages, posts, pages, cursor, converted,
                   use_markdown, files, fetchVars, convLocals, taxVars>>

\* The loop over posts is exhausted: the loop over pages starts.
BatchPostsDone ==
    /\ bpc = "posts"
    /\ cursor > Len(posts)
    /\ cursor' = 1
    /\ bpc' = "pages"
    /\ UNCHANGED <<site_posts, site_pages, posts, pages, converted,
                   use_markdown, files, fetchVars, convLocals, taxVars>>

\* The loop over pages is exhausted: the call returns.
BatchPagesDone ==
    /\ bpc = "pages"
    /\ cursor > Len(pages)
    /\ bpc' = "done"
    /\ UNCHANGED <<site_posts, site_pages, posts, pages, cursor, converted,
                   use_markdown, files, fetchVars, convLocals, taxVars>>

NextBatch ==
    \/ BatchFetchPosts \/ BatchFetchPages \/ BatchConvert \/ BatchRaise
    \/ BatchPostsDone \/ BatchPagesDone

SpecBatch == InitBatch /\ [][NextBatch]_vars

-----------------------------------------------------------------------------
(* Claims about save_posts_and_pages *)

\* All items in the order claimed: the posts, then the pages.
Planned ==
    [i \in 1..Len(site_posts) |-> <<"post", site_posts[i]>>]
        \o [i \in 1..Len(site_pages) |-> <<"page", site_pages[i]>>]

\* The output directory after the given conversions, one after the other.
RECURSIVE FilesAfter(_)
FilesAfter(done) ==
    IF done = <<>> THEN <<>>
    ELSE LET last == done[Len(done)]
             w == ConvertedFile(last[2], last[1], use_markdown)
         IN  WriteFile(FilesAfter(SubSeq(done, 1, Len(done) - 1)), w.path, w.file)

\* C10: nothing is converted or written before both fetches have finished;
\* items are converted and written in the order all posts, then all pages;
\* when converting item k raises, the call ends there: exactly the items
\* before k have been converted, none after it, and the files written for
\* them are in place; without a raise every item is converted.
C10_BatchInOrderAndAbortsAtFirstRaise ==
    /\ bpc \in {"fetch_posts", "fetch_pages"} => (converted = <<>> /\ files = <<>>)
    /\ IsPrefix(converted, Planned)
    /\ \A i \in 1..Len(converted) : ~ConvertRaises(converted[i][2])
    /\ files = FilesAfter(converted)
    /\ bpc = "raised" =>
          /\ Len(converted) < Len(Planned)
          /\ ConvertRaises(Planned[Len(converted) + 1][2])
    /\ bpc = "done" => converted = Planned

\* Witness of C10: the conversion of a page raised after a post and a page
\* had been written, with items left behind it.
C10_Witness ==
    /\ bpc = "raised"
    /\ Len(posts) >= 1
    /\ Len(converted) = Len(posts) + 1
    /\ Len(Planned) > Len(converted) + 1
    /\ DOMAIN files = {<<"post", "by-slug", Str("hi")>>, <<"page", "by-slug", Str("hi")>>}

-----------------------------------------------------------------------------
(* The four parts together: a behaviour runs one of them. *)

Init == InitFetch \/ InitConvert \/ InitTax \/ InitBatch

Next == NextFetch \/ NextConvert \/ NextTax \/ NextBatch

Spec == Init /\ [][Next]_vars

====
